---- MODULE Spec2Model ----
(***************************************************************************)
(* Model of TradingAnalyzer (src/trading_decision_app.py): the analyzer's  *)
(* fields `data` and `current_price`, and its operations fetch_data,       *)
(* calculate_technical_indicators, generate_signals and                    *)
(* calculate_price_targets.                                                *)
(*                                                                         *)
(* Numbers.  Python/numpy floats are modelled as records                   *)
(*   [def |-> BOOLEAN, v |-> Int]                                          *)
(* where def = FALSE is NaN and v counts 1/Unit-ths, Unit = 10000, so that *)
(* every product with 0.98, 0.95, 1.15, 1.02 and 1.05 the code forms is    *)
(* exact.  Comparisons follow IEEE-754: every comparison with NaN is       *)
(* false.  Quotients are exact reduced fractions (or NaN for 0/0).         *)
(* Binary rounding of the floats is not modelled.                          *)
(***************************************************************************)
EXTENDS Integers, Sequences, FiniteSets, TLC

VARIABLES
    TA_AVAILABLE,   \* whether `import ta` succeeded (lines 20-25)
    data,           \* self.data (line 74)
    current_price,  \* self.current_price (line 75)
    ret             \* the outcome of the call the caller made last, or Idle

vars == <<TA_AVAILABLE, data, current_price, ret>>

-----------------------------------------------------------------------------
(* Bounds of the model *)

\* raw prices of the provider's bars range over 0 .. MaxPrice
MaxPrice == 2
\* series lengths beyond the longest window that are tried
MaxExtraBars == 1

-----------------------------------------------------------------------------
(* Program constants *)

SMA_FAST_WINDOW == 20
SMA_SLOW_WINDOW == 50
RSI_WINDOW == 14
MACD_SLOW_WINDOW == 26
MACD_SIGNAL_WINDOW == 9
BB_WINDOW == 20
SR_WINDOW == 20
RSI_OVERSOLD == 30
RSI_OVERBOUGHT == 70
SUPPORT_PCT == 98
ENTRY_FLOOR_PCT == 95
STOP_LOSS_PCT == 95
TAKE_PROFIT_PCT == 115
RESISTANCE_PCT == 102
EXIT_CEIL_PCT == 105

-----------------------------------------------------------------------------
(* Float arithmetic *)

Unit == 100 * 100

NaN == [def |-> FALSE, v |-> 0]
F(n) == [def |-> TRUE, v |-> n * Unit]

Gt(a, b) == a.def /\ b.def /\ a.v > b.v
Lt(a, b) == a.def /\ b.def /\ a.v < b.v

\* x * (pct / 100)
MulPct(x, pct) == IF x.def THEN [def |-> TRUE, v |-> (x.v * pct) \div 100] ELSE NaN

Sub(a, b) == IF a.def /\ b.def THEN [def |-> TRUE, v |-> a.v - b.v] ELSE NaN

\* Python's builtin max(a, b): b replaces a only when b > a
PyMax(a, b) == IF Gt(b, a) THEN b ELSE a

\* Python's builtin min(a, b): b replaces a only when b < a
PyMin(a, b) == IF Lt(b, a) THEN b ELSE a

Abs(n) == IF n < 0 THEN -n ELSE n

RECURSIVE GCD(_, _)
GCD(a, b) == IF b = 0 THEN a ELSE GCD(b, a % b)

NaNRatio == [def |-> FALSE, num |-> 0, den |-> 1]

\* numpy float64 division a / b times k, as an exact reduced fraction;
\* 0/0 and NaN operands give NaN (numpy warns, and warnings are ignored)
Quot(a, b, k) ==
    IF ~a.def \/ ~b.def THEN NaNRatio
    ELSE IF b.v = 0 THEN NaNRatio
    ELSE LET n == a.v * k
             d == b.v
             g == GCD(Abs(n), Abs(d))
             s == IF d < 0 THEN -1 ELSE 1
         IN  [def |-> TRUE, num |-> s * (n \div g), den |-> s * (d \div g)]

-----------------------------------------------------------------------------
(* Python values *)

\* self.data: None or the provider's DataFrame (its rows, oldest first)
NoData == [isNone |-> TRUE, bars |-> <<>>]
Frame(bars) == [isNone |-> FALSE, bars |-> bars]

\* an optional float: None or a number
NoneFloat == [isNone |-> TRUE, val |-> NaN]
Float(x) == [isNone |-> FALSE, val |-> x]

\* Python truthiness of an optional float: None and 0 are falsy
Truthy(x) == ~x.isNone /\ (~x.val.def \/ x.val.v # 0)

\* generate_signals returns None in place of the list of signals
NoSignals == << >>

Verdicts == {"BUY", "SELL", "NEUTRAL"}
Families == <<"Moving Average", "RSI", "MACD", "Bollinger Bands">>

-----------------------------------------------------------------------------
(* The market-data provider: what yf.Ticker(symbol).history(period) returns *)

RawPrices == 0 .. MaxPrice

Bars == {b \in [Low : RawPrices, High : RawPrices, Close : RawPrices] :
            b.Low <= b.Close /\ b.Close <= b.High}

\* first length at which ta's macd_diff / macd_signal are defined
MacdWarmup == MACD_SLOW_WINDOW + MACD_SIGNAL_WINDOW - 1

\* series lengths tried: empty, one bar, and each window's first defined bar
Lengths == {0, 1, RSI_WINDOW, SR_WINDOW - 1, SR_WINDOW, MacdWarmup}
             \cup (SMA_SLOW_WINDOW .. SMA_SLOW_WINDOW + MaxExtraBars)

\* a bar that traded at one price
Flat(p) == [Low |-> p, High |-> p, Close |-> p]

\* a series of n bars: n - 1 bars at the price `old`, then the latest bar `last`
Series(n, old, last) == [i \in 1 .. n |-> IF i = n THEN last ELSE Flat(old)]

ProviderSeries == {Series(n, old, last) : n \in Lengths, old \in RawPrices, last \in Bars}

-----------------------------------------------------------------------------
(* The numeric libraries (ta, pandas rolling/ewm): their results for the    *)
(* latest bar.  The values are inputs; which of them are NaN follows from  *)
(* the windows the code passes and the number of bars.                     *)

RSIValues == {F(RSI_OVERSOLD - 1), F(RSI_OVERSOLD), F(RSI_OVERBOUGHT), F(RSI_OVERBOUGHT + 1)}

LibraryOutputs(ta, n) ==
    LET sma  == IF n >= SMA_SLOW_WINDOW
                THEN {<<F(1), F(0)>>, <<F(1), F(1)>>, <<F(1), F(2)>>}
                ELSE IF n >= SMA_FAST_WINDOW THEN {<<F(1), NaN>>}
                ELSE {<<NaN, NaN>>}
        \* the fallback's gain / loss is 0 / 0 on a flat window
        rsi  == IF n >= RSI_WINDOW
                THEN RSIValues \cup (IF ta THEN {} ELSE {NaN})
                ELSE {NaN}
        \* ta's EMAs need full windows; pandas' ewm(span) needs one bar
        macd == IF (ta /\ n >= MacdWarmup) \/ (~ta /\ n >= 1)
                THEN {<<F(0), F(0)>>, <<F(0), F(1)>>, <<F(1), F(0)>>}
                ELSE {<<NaN, NaN>>}
        \* lower and upper band
        bb   == IF n >= BB_WINDOW
                THEN {<<F(1), F(1)>>, <<F(0), F(2)>>}
                ELSE {<<NaN, NaN>>}
    IN  {[SMA_20 |-> a[1], SMA_50 |-> a[2], RSI |-> r, MACD |-> m[1], MACD_signal |-> m[2],
          BB_lower |-> l[1], BB_upper |-> l[2]] :
            a \in sma, r \in rsi, m \in macd, l \in bb}

\* latest value of column.rolling(window).min()
RollingMin(col, window) ==
    IF Len(col) < window THEN NaN
    ELSE LET S == {col[i] : i \in (Len(col) - window + 1) .. Len(col)}
         IN  F(CHOOSE m \in S : \A x \in S : m <= x)

\* latest value of column.rolling(window).max()
RollingMax(col, window) ==
    IF Len(col) < window THEN NaN
    ELSE LET S == {col[i] : i \in (Len(col) - window + 1) .. Len(col)}
         IN  F(CHOOSE m \in S : \A x \in S : m >= x)

Column(bars, name) == [i \in 1 .. Len(bars) |-> bars[i][name]]

-----------------------------------------------------------------------------
(* TradingAnalyzer.calculate_technical_indicators *)

NoFrame == [isNone |-> TRUE, len |-> 0]

\* The enriched frame: its number of rows and, when it has one, its last row
\* (the only row the analyzer reads).  EMA_12, EMA_26 and BB_middle are never
\* read and are left out.  No library call raises on the frames of
\* ProviderSeries, so the except branch (lines 146-148) is not taken.
calculate_technical_indicators(d, lib) ==
    IF d.isNone THEN NoFrame
    ELSE LET n == Len(d.bars) IN
         IF n = 0 THEN [isNone |-> FALSE, len |-> 0]
         ELSE [isNone |-> FALSE, len |-> n,
               latest |-> [Close       |-> F(d.bars[n].Close),
                           SMA_20      |-> lib.SMA_20,
                           SMA_50      |-> lib.SMA_50,
                           RSI         |-> lib.RSI,
                           MACD        |-> lib.MACD,
                           MACD_signal |-> lib.MACD_signal,
                           BB_lower    |-> lib.BB_lower,
                           BB_upper    |-> lib.BB_upper,
                           Support     |-> RollingMin(Column(d.bars, "Low"), SR_WINDOW),
                           Resistance  |-> RollingMax(Column(d.bars, "High"), SR_WINDOW)]]

-----------------------------------------------------------------------------
(* TradingAnalyzer.generate_signals *)

\* a > b > c in Python is (a > b) and (b > c)
ma_signal(latest) ==
    IF Gt(latest.Close, latest.SMA_20) /\ Gt(latest.SMA_20, latest.SMA_50)
    THEN <<"Moving Average", "BUY", "Price above both SMA20 and SMA50">>
    ELSE IF Lt(latest.Close, latest.SMA_20) /\ Lt(latest.SMA_20, latest.SMA_50)
    THEN <<"Moving Average", "SELL", "Price below both SMA20 and SMA50">>
    ELSE <<"Moving Average", "NEUTRAL", "Mixed moving average signals">>

\* rsi_signal with the oversold boundary included in BUY
rsi_signal_inclusive(latest) ==
    IF latest.RSI.def /\ latest.RSI.v <= F(RSI_OVERSOLD).v
    THEN <<"RSI", "BUY", "Oversold condition">>
    ELSE IF Gt(latest.RSI, F(RSI_OVERBOUGHT))
    THEN <<"RSI", "SELL", "Overbought condition">>
    ELSE <<"RSI", "NEUTRAL", "Neutral RSI">>

\* the rationale's formatted RSI value is left out
rsi_signal(latest) ==
    IF Lt(latest.RSI, F(RSI_OVERSOLD))
    THEN <<"RSI", "BUY", "Oversold condition">>
    ELSE IF Gt(latest.RSI, F(RSI_OVERBOUGHT))
    THEN <<"RSI", "SELL", "Overbought condition">>
    ELSE <<"RSI", "NEUTRAL", "Neutral RSI">>

\* macd_signal with a NEUTRAL branch for MACD equal to its signal line
macd_signal_three_way(latest) ==
    IF Gt(latest.MACD, latest.MACD_signal)
    THEN <<"MACD", "BUY", "MACD above signal line">>
    ELSE IF Lt(latest.MACD, latest.MACD_signal)
    THEN <<"MACD", "SELL", "MACD below signal line">>
    ELSE <<"MACD", "NEUTRAL", "MACD on signal line">>

macd_signal(latest) ==
    IF Gt(latest.MACD, latest.MACD_signal)
    THEN <<"MACD", "BUY", "MACD above signal line">>
    ELSE <<"MACD", "SELL", "MACD below signal line">>

bb_signal(latest) ==
    IF Lt(latest.Close, latest.BB_lower)
    THEN <<"Bollinger Bands", "BUY", "Price below lower band">>
    ELSE IF Gt(latest.Close, latest.BB_upper)
    THEN <<"Bollinger Bands", "SELL", "Price above upper band">>
    ELSE <<"Bollinger Bands", "NEUTRAL", "Price within bands">>

IsBuy(s) == s[2] = "BUY"
IsSell(s) == s[2] = "SELL"

\* overall_signal with a tie resolved to BUY
overall_signal_tie_buys(signals) ==
    LET buy_signals  == Len(SelectSeq(signals, IsBuy))
        sell_signals == Len(SelectSeq(signals, IsSell))
    IN  IF buy_signals >= sell_signals THEN "BUY"
        ELSE "SELL"

overall_signal(signals) ==
    LET buy_signals  == Len(SelectSeq(signals, IsBuy))
        sell_signals == Len(SelectSeq(signals, IsSell))
    IN  IF buy_signals > sell_signals THEN "BUY"
        ELSE IF sell_signals > buy_signals THEN "SELL"
        ELSE "NEUTRAL"

\* the outcome of one call: what it returned, or the exception it raised
generate_signals(d, lib) ==
    LET df == calculate_technical_indicators(d, lib) IN
    IF df.isNone
    THEN [op |-> "generate_signals", status |-> "returned",
          signals |-> NoSignals, overall_signal |-> "None",
          message |-> "No data available"]
    ELSE IF df.len = 0
    THEN \* df.iloc[-1] on a frame without rows
         [op |-> "generate_signals", status |-> "raised", exc |-> "IndexError"]
    ELSE LET latest  == df.latest
             signals == <<ma_signal(latest), rsi_signal(latest),
                          macd_signal(latest), bb_signal(latest)>>
         IN  [op |-> "generate_signals", status |-> "returned",
              signals |-> signals, overall_signal |-> overall_signal(signals),
              df |-> df]

-----------------------------------------------------------------------------
(* TradingAnalyzer.calculate_price_targets *)

NoPlan == [kind |-> "None"]

\* buy_plan taking the lower of the two candidate entries
buy_plan_lower_entry(latest, price) ==
    LET support     == latest.Support
        buy_target  == PyMin(MulPct(support, SUPPORT_PCT), MulPct(price, ENTRY_FLOOR_PCT))
        stop_loss   == MulPct(buy_target, STOP_LOSS_PCT)
        take_profit == MulPct(buy_target, TAKE_PROFIT_PCT)
    IN  [kind        |-> "BUY",
         entry_price |-> buy_target,
         stop_loss   |-> stop_loss,
         take_profit |-> take_profit,
         risk_reward |-> Quot(Sub(take_profit, buy_target), Sub(buy_target, stop_loss), 1)]

buy_plan(latest, price) ==
    LET support     == latest.Support
        buy_target  == PyMax(MulPct(support, SUPPORT_PCT), MulPct(price, ENTRY_FLOOR_PCT))
        stop_loss   == MulPct(buy_target, STOP_LOSS_PCT)
        take_profit == MulPct(buy_target, TAKE_PROFIT_PCT)
    IN  [kind        |-> "BUY",
         entry_price |-> buy_target,
         stop_loss   |-> stop_loss,
         take_profit |-> take_profit,
         risk_reward |-> Quot(Sub(take_profit, buy_target), Sub(buy_target, stop_loss), 1)]

sell_plan(latest, price, buy_price) ==
    LET resistance  == latest.Resistance
        sell_target == PyMin(MulPct(resistance, RESISTANCE_PCT), MulPct(price, EXIT_CEIL_PCT))
        profit_loss == Sub(sell_target, buy_price)
    IN  [kind              |-> "SELL",
         sell_price        |-> sell_target,
         profit_loss       |-> profit_loss,
         profit_percentage |-> Quot(profit_loss, buy_price, 100),
         current_price     |-> price]

calculate_price_targets(d, cp, lib, action, buy_price) ==
    LET df   == calculate_technical_indicators(d, lib)
        call == [op |-> "calculate_price_targets", action |-> action, buy_price |-> buy_price]
    IN  IF df.isNone
        THEN call @@ [status |-> "returned", plan |-> NoPlan]
        ELSE IF df.len = 0
        THEN \* df.iloc[-1] on a frame without rows
             call @@ [status |-> "raised", exc |-> "IndexError"]
        ELSE IF action = "BUY"
        THEN IF cp.isNone
             THEN \* None * 0.95
                  call @@ [status |-> "raised", exc |-> "TypeError"]
             ELSE call @@ [status |-> "returned", plan |-> buy_plan(df.latest, cp.val)]
        ELSE IF action = "SELL" /\ Truthy(buy_price)
        THEN IF cp.isNone
             THEN \* None * 1.05
                  call @@ [status |-> "raised", exc |-> "TypeError"]
             ELSE call @@ [status |-> "returned",
                           plan |-> sell_plan(df.latest, cp.val, buy_price.val)]
        ELSE call @@ [status |-> "returned", plan |-> NoPlan]

-----------------------------------------------------------------------------
(* The analyzer and its caller *)

\* no call is in progress and no result is pending
Idle == [op |-> "idle", status |-> "idle"]

\* the basis prices a caller passes: none, or a number
BuyPrices == {NoneFloat} \cup {Float(F(p)) : p \in -1 .. MaxPrice + 1}

Actions == {"BUY", "SELL"}

\* TradingAnalyzer(symbol), in a process where the ta import did or did not succeed
Init ==
    /\ TA_AVAILABLE \in BOOLEAN
    /\ data = NoData
    /\ current_price = NoneFloat
    /\ ret = Idle

\* ticker.history raises: nothing is assigned
FetchDataFails ==
    /\ ret = Idle
    /\ ret' = [op |-> "fetch_data", status |-> "returned", ok |-> FALSE]
    /\ UNCHANGED <<TA_AVAILABLE, data, current_price>>

\* ticker.history returns a series: self.data is assigned, then the latest close
\* is read, which raises IndexError on a series without bars
FetchData ==
    /\ ret = Idle
    /\ \E series \in ProviderSeries :
          /\ data' = Frame(series)
          /\ IF Len(series) = 0
             THEN /\ current_price' = current_price
                  /\ ret' = [op |-> "fetch_data", status |-> "returned", ok |-> FALSE]
             ELSE /\ current_price' = Float(F(series[Len(series)].Close))
                  /\ ret' = [op |-> "fetch_data", status |-> "returned", ok |-> TRUE]
    /\ UNCHANGED TA_AVAILABLE

GenerateSignals ==
    /\ ret = Idle
    /\ \E lib \in LibraryOutputs(TA_AVAILABLE, Len(data.bars)) :
          ret' = generate_signals(data, lib)
    /\ UNCHANGED <<TA_AVAILABLE, data, current_price>>

CalculatePriceTargets ==
    /\ ret = Idle
    /\ \E action \in Actions, buy_price \in BuyPrices :
       \E lib \in LibraryOutputs(TA_AVAILABLE, Len(data.bars)) :
          ret' = calculate_price_targets(data, current_price, lib, action, buy_price)
    /\ UNCHANGED <<TA_AVAILABLE, data, current_price>>

\* the caller has taken the outcome of the call and may call again
Resume ==
    /\ ret # Idle
    /\ ret' = Idle
    /\ UNCHANGED <<TA_AVAILABLE, data, current_price>>

Next ==
    \/ FetchDataFails
    \/ FetchData
    \/ GenerateSignals
    \/ CalculatePriceTargets
    \/ Resume

Spec == Init /\ [][Next]_vars

-----------------------------------------------------------------------------
(* The aggregation of generate_signals as a function of four verdicts *)

VoteSignals(v) == [i \in 1 .. 4 |-> <<Families[i], v[i], "">>]

InitVote ==
    /\ TA_AVAILABLE \in BOOLEAN
    /\ data = NoData
    /\ current_price = NoneFloat
    /\ \E v \in [1 .. 4 -> Verdicts] :
          ret = [op |-> "aggregate", status |-> "input",
                 signals |-> VoteSignals(v), overall_signal |-> "None"]

Aggregate ==
    /\ ret.op = "aggregate" /\ ret.status = "input"
    /\ ret' = [ret EXCEPT !.status = "returned",
                          !.overall_signal = overall_signal(ret.signals)]
    /\ UNCHANGED <<TA_AVAILABLE, data, current_price>>

NextVote == Aggregate

SpecVote == InitVote /\ [][NextVote]_vars

-----------------------------------------------------------------------------
(* Vocabulary of the properties *)

Count(signals, verdict) ==
    Cardinality({i \in DOMAIN signals : signals[i][2] = verdict})

\* the analyzer holds a series with at least one bar
HasBars == ~data.isNone /\ Len(data.bars) >= 1

\* the analyzer holds a series without bars
HoldsEmptySeries == ~data.isNone /\ Len(data.bars) = 0

\* generate_signals has returned a list of signals
GeneratedSignals ==
    ret.op = "generate_signals" /\ ret.status = "returned" /\ ret.signals # NoSignals

PriceTargetsCall(action) ==
    ret.op = "calculate_price_targets" /\ ret.action = action

BuyPlanReturned ==
    PriceTargetsCall("BUY") /\ ret.status = "returned" /\ ret.plan.kind = "BUY"

\* the lows of the latest SR_WINDOW bars
RecentLows == {data.bars[i].Low : i \in (Len(data.bars) - SR_WINDOW + 1) .. Len(data.bars)}

SupportDefined == HasBars /\ Len(data.bars) >= SR_WINDOW

\* the least of the recent lows, in 1/Unit-ths
SupportLevel == Unit * (CHOOSE m \in RecentLows : \A x \in RecentLows : m <= x)

LatestClose == Unit * data.bars[Len(data.bars)].Close

Larger(a, b) == IF a >= b THEN a ELSE b

-----------------------------------------------------------------------------
(* C1: the overall verdict is a strict majority vote over the four family   *)
(* verdicts, for every combination of BUY, SELL and NEUTRAL: BUY when BUY   *)
(* verdicts outnumber SELL verdicts, SELL when SELL verdicts outnumber BUY  *)
(* verdicts, NEUTRAL when the counts are equal; the number of NEUTRAL       *)
(* verdicts plays no part.                                                  *)
C1_MajorityVote ==
    (ret.op = "aggregate" /\ ret.status = "returned") =>
        LET b == Count(ret.signals, "BUY")
            s == Count(ret.signals, "SELL")
        IN  /\ (b > s) => ret.overall_signal = "BUY"
            /\ (s > b) => ret.overall_signal = "SELL"
            /\ (b = s) => ret.overall_signal = "NEUTRAL"

\* a 2-2 tie has been aggregated
C1_Witness ==
    /\ ret.op = "aggregate" /\ ret.status = "returned"
    /\ Count(ret.signals, "BUY") = 2
    /\ Count(ret.signals, "SELL") = 2
    /\ ret.overall_signal = "NEUTRAL"

(* C2: every call of generate_signals, in every analyzer state, returns     *)
(* exactly four signals, one per family in the order Moving Average, RSI,   *)
(* MACD, Bollinger Bands, each with a verdict among BUY, SELL, NEUTRAL, and *)
(* an overall verdict among BUY, SELL, NEUTRAL.                             *)
C2_AlwaysFourSignalsAndVerdict ==
    (ret.op = "generate_signals") =>
        /\ ret.status = "returned"
        /\ Len(ret.signals) = 4
        /\ \A i \in 1 .. 4 : ret.signals[i][1] = Families[i] /\ ret.signals[i][2] \in Verdicts
        /\ ret.overall_signal \in Verdicts

(* C3: on a series with a latest bar, generate_signals does not fail, and   *)
(* each family whose indicator is undefined for the latest bar gets the     *)
(* verdict NEUTRAL, the MACD family included.                               *)
C3_UndefinedIsNeutral ==
    (ret.op = "generate_signals" /\ HasBars) =>
        /\ ret.status = "returned"
        /\ ret.signals # NoSignals
        /\ LET l == ret.df.latest IN
           /\ (~l.SMA_20.def \/ ~l.SMA_50.def) => ret.signals[1][2] = "NEUTRAL"
           /\ ~l.RSI.def => ret.signals[2][2] = "NEUTRAL"
           /\ (~l.MACD.def \/ ~l.MACD_signal.def) => ret.signals[3][2] = "NEUTRAL"
           /\ (~l.BB_lower.def \/ ~l.BB_upper.def) => ret.signals[4][2] = "NEUTRAL"

(* C4: the MACD verdict is binary: BUY exactly when MACD is strictly        *)
(* greater than its signal line, SELL in every other case (equality         *)
(* included), never NEUTRAL.                                                *)
C4_MacdBinary ==
    GeneratedSignals =>
        LET l     == ret.df.latest
            above == l.MACD.def /\ l.MACD_signal.def /\ l.MACD.v > l.MACD_signal.v
        IN  /\ ret.signals[3][1] = "MACD"
            /\ above => ret.signals[3][2] = "BUY"
            /\ ~above => ret.signals[3][2] = "SELL"

\* MACD equal to its signal line gave SELL
C4_Witness ==
    /\ GeneratedSignals
    /\ ret.df.latest.MACD.def /\ ret.df.latest.MACD_signal.def
    /\ ret.df.latest.MACD.v = ret.df.latest.MACD_signal.v
    /\ ret.signals[3][2] = "SELL"

AllDefined(l) ==
    /\ l.SMA_20.def /\ l.SMA_50.def /\ l.RSI.def
    /\ l.MACD.def /\ l.MACD_signal.def
    /\ l.BB_lower.def /\ l.BB_upper.def

Verdict3(buy, sell) == IF buy THEN "BUY" ELSE IF sell THEN "SELL" ELSE "NEUTRAL"

(* C5: when every indicator of the latest bar is defined, Moving Average is *)
(* BUY iff close > SMA20 > SMA50, SELL iff close < SMA20 < SMA50, else      *)
(* NEUTRAL; RSI is BUY iff RSI < 30, SELL iff RSI > 70, else NEUTRAL;       *)
(* Bollinger is BUY iff close < lower band, SELL iff close > upper band,    *)
(* else NEUTRAL; so every boundary equality gives NEUTRAL.                  *)
C5_StrictThresholds ==
    (GeneratedSignals /\ AllDefined(ret.df.latest)) =>
        LET l == ret.df.latest
            c == l.Close.v
        IN  /\ ret.signals[1][2] =
                  Verdict3(c > l.SMA_20.v /\ l.SMA_20.v > l.SMA_50.v,
                           c < l.SMA_20.v /\ l.SMA_20.v < l.SMA_50.v)
            /\ ret.signals[2][2] =
                  Verdict3(l.RSI.v < RSI_OVERSOLD * Unit, l.RSI.v > RSI_OVERBOUGHT * Unit)
            /\ ret.signals[4][2] =
                  Verdict3(c < l.BB_lower.v, c > l.BB_upper.v)

\* RSI on a threshold, close on a band and close on SMA20, all three NEUTRAL
C5_Witness ==
    /\ GeneratedSignals /\ AllDefined(ret.df.latest)
    /\ ret.df.latest.RSI.v = RSI_OVERSOLD * Unit
    /\ ret.df.latest.Close.v = ret.df.latest.BB_lower.v
    /\ ret.df.latest.Close.v = ret.df.latest.SMA_20.v
    /\ ret.signals[1][2] = "NEUTRAL"
    /\ ret.signals[2][2] = "NEUTRAL"
    /\ ret.signals[4][2] = "NEUTRAL"

C7_DegenerateEntryIsError ==
    (PriceTargetsCall("BUY") /\ SupportDefined
        /\ Larger(SUPPORT_PCT * SupportLevel, ENTRY_FLOOR_PCT * LatestClose) = 0) =>
        ~BuyPlanReturned

(* C8: for action SELL, no plan is produced when the basis price is         *)
(* missing, zero or negative: a plan with a computed profit_loss is         *)
(* returned only for a strictly positive basis price.                       *)
C8_SellNeedsPositiveBasis ==
    (PriceTargetsCall("SELL") /\ ret.status = "returned" /\ ret.plan.kind = "SELL"
        /\ ret.plan.profit_loss.def) =>
        /\ ~ret.buy_price.isNone
        /\ ret.buy_price.val.def
        /\ ret.buy_price.val.v > 0

(* C9: once the provider has returned a series without bars, fetch_data     *)
(* has reported failure, and every later generate_signals or                *)
(* calculate_price_targets call returns its no-result value (no signals,    *)
(* no verdict, no plan) instead of failing.                                 *)
C9_EmptySeriesRejected ==
    HoldsEmptySeries =>
        /\ (ret.op = "fetch_data") => ~ret.ok
        /\ (ret.op = "generate_signals") =>
              /\ ret.status = "returned"
              /\ ret.signals = NoSignals
              /\ ret.overall_signal = "None"
        /\ (ret.op = "calculate_price_targets") =>
              /\ ret.status = "returned"
              /\ ret.plan = NoPlan

(* C10: for every series with a latest bar and a positive current price,    *)
(* shorter than the support window or not, the BUY plan has a defined       *)
(* entry_price of at least 95% of the current price, strictly below the     *)
(* current price when support is defined (every bar has low <= close), and  *)
(* defined stop_loss, take_profit and risk_reward: an undefined support     *)
(* does not reach the plan.                                                 *)
C10_EntryDefinedOnShortSeries ==
    (PriceTargetsCall("BUY") /\ HasBars /\ LatestClose > 0) =>
        /\ BuyPlanReturned
        /\ ret.plan.entry_price.def
        /\ 100 * ret.plan.entry_price.v >= ENTRY_FLOOR_PCT * LatestClose
        /\ SupportDefined => ret.plan.entry_price.v < LatestClose
        /\ ret.plan.stop_loss.def
        /\ ret.plan.take_profit.def
        /\ ret.plan.risk_reward.def

====
